---- MODULE Spec2Model ----
(***************************************************************************)
(* The terrain API worker (src/worker.js): one request handler, `fetch`,   *)
(* that resolves a centre point, looks the result up in a KV cache,        *)
(* generates a sample grid, fetches the elevations in batches and stores   *)
(* the result.  Each action below is one stretch of the handler between    *)
(* two awaits (JavaScript runs such a stretch without interruption).       *)
(* The OPTIONS preflight and the administrative /debug-sentry route, which  *)
(* return before the pipeline starts, and the telemetry calls, which       *)
(* change no state of the handler, are left out.  The revision without     *)
(* telemetry (src/unnamed/part_002) is modelled beside it.                 *)
(***************************************************************************)
EXTENDS Integers, Sequences, FiniteSets, TLC

\* ------------------------------------------------------------------ bounds
\* Handler invocations that can be in flight at once.
NumProcs == 2
\* Requests received in one behaviour.
MaxRequests == 2
\* Elevation responses, in one behaviour, that differ from what the dataset
\* holds for the coordinates asked (errors, wrong counts, missing values).
MaxDeviations == 1
\* Such a deviation occurs in requests of at most this many batches; a longer
\* request is answered from the dataset as it is.
MaxDeviantBatches == 2

\* ------------------------------------------------------- program constants
BATCH_SIZE == 100
DefaultGrid == 40
DefaultSize == 10
kmPerDegLat == 111
\* The default of grid in the API documentation.
DocumentedGrid == 20

\* ---------------------------------------------------------------- JS values
\* Numbers are integers; coordinates are in units of 10^-6 degree (the six
\* decimals the handler keeps with toFixed(6)).  Three codes outside the range
\* of every number of the model stand for NaN, null and undefined.
Micro == 1000000
NaN == 0 - 2000000000
Null == 0 - 1999999999
Undefined == 0 - 1999999998

\* isNaN(x): true of NaN and of undefined (Number(undefined) is NaN), false of
\* null (Number(null) is 0) and of every number.
IsNaN(x) == x = NaN \/ x = Undefined

Abs(x) == IF x < 0 THEN 0 - x ELSE x

\* a / b rounded to the nearest integer, b > 0 (the rounding of toFixed).
RoundDiv(a, b) == (2 * a + b) \div (2 * b)

Pow10(n) == IF n = 0 THEN 1 ELSE IF n = 1 THEN 10 ELSE IF n = 2 THEN 100 ELSE 1000

\* x.toFixed(d) of a coordinate x: the sign the string starts with and the
\* digits, as the number of 10^-d steps (a negative x that rounds to zero still
\* prints "-0.0000").
ToFixed(x, d) ==
    IF x = NaN THEN [neg |-> FALSE, mag |-> NaN]
    ELSE [neg |-> x < 0, mag |-> RoundDiv(Abs(x), Micro \div Pow10(d))]

\* ------------------------------------------------------------- query string
\* url.searchParams.get(k): null when the parameter is absent, else a string:
\* empty, not a number, or the decimal text of a number.
Absent == [kind |-> "absent", val |-> 0]
EmptyStr == [kind |-> "empty", val |-> 0]
Text == [kind |-> "text", val |-> 0]
Num(n) == [kind |-> "num", val |-> n]

\* A string is truthy unless it is empty; null is falsy.
Truthy(p) == p.kind \in {"text", "num"}

\* parseFloat / parseInt of a parameter: NaN for null, "" and non-numeric text.
ParseFloat(p) == IF p.kind = "num" THEN p.val ELSE NaN
ParseInt(p) == IF p.kind = "num" THEN p.val ELSE NaN

\* x || d for a number x: d when x is NaN or 0.
OrDefault(x, d) == IF x = NaN \/ x = 0 THEN d ELSE x

\* Two latitudes 0.00003 degree apart (same four decimals), one longitude.
LatA == 36 * Micro + 54410
LatB == 36 * Micro + 54440
LonA == 0 - 112140100

QParams == {Absent, EmptyStr, Text}
LatParams == {Absent, Text, Num(LatA), Num(LatB)}
LonParams == {Absent, Num(LonA)}
SizeParams == {Absent}
GridParams == {Absent, Num(1), Num(2), Num(11)}

\* The requests of the model.  Without q: every combination of lat and lon.
\* With a text q: no coordinates, or a complete pair.  With an empty q: no
\* coordinates, or a complete pair.  A grid other than 2 (omitted, 1, 11) is
\* asked without q, at (LatA, LonA).
RequestParams ==
    { r \in [q : QParams, lat : LatParams, lon : LonParams,
             size : SizeParams, grid : GridParams] :
        /\ r.q = Text => \/ (r.lat = Absent /\ r.lon = Absent)
                         \/ (r.lat = Num(LatB) /\ r.lon = Num(LonA))
        /\ r.q = EmptyStr => \/ (r.lat = Absent /\ r.lon = Absent)
                             \/ (r.lat = Num(LatA) /\ r.lon = Num(LonA))
        /\ r.grid # Num(2) =>
              (r.q = Absent /\ r.lat = Num(LatA) /\ r.lon = Num(LonA)) }

\* The requests that race: the two latitudes of one cache key and a q, at
\* grid 2, and one request of two batches.
RacingParams ==
    { r \in RequestParams :
        \/ r.grid = Num(2) /\ r.q = Absent /\ r.lat \in {Num(LatA), Num(LatB)}
                          /\ r.lon = Num(LonA)
        \/ r.grid = Num(2) /\ r.q = Text /\ r.lat = Absent
        \/ r.grid = Num(11) }

\* A latitude of 0.00001 degree, taken north and south of the equator.
LatNearZero == 10

\* The requests whose keys are compared: lat / lon pairs north and south of
\* the equator and at the two latitudes of one key, and one request each of
\* another size and of another grid.
KeyParams ==
    { [q |-> Absent, lat |-> Num(l), lon |-> Num(LonA),
       size |-> Absent, grid |-> Num(2)] :
         l \in {LatNearZero, 0 - LatNearZero, LatA, LatB} }
    \cup { [q |-> Absent, lat |-> Num(LatA), lon |-> Num(LonA),
             size |-> Num(20), grid |-> Num(2)],
           [q |-> Absent, lat |-> Num(LatA), lon |-> Num(LonA),
             size |-> Absent, grid |-> Num(3)] }

\* ------------------------------------------------------------ sample grid
\* Math.cos(centerLat * Math.PI / 180) in thousandths, by the series
\* 1 - x^2/2 + x^4/24 with x in milliradians.
CosMilli(lat) ==
    LET x == ((Abs(lat) \div 1000) * 17453) \div Micro
        x2 == x * x
    IN IF IsNaN(lat) THEN NaN
       ELSE 1000 - (x2 \div 2000)
                 + (((x2 \div 1000) * (x2 \div 1000)) \div 24000)

\* latOffset = (i / (grid - 1) - 0.5) * size / kmPerDegLat, in 10^-6 degree;
\* 0 / 0 is NaN when grid is 1.
LatOffset(i, grid, size) ==
    IF grid = 1 THEN NaN
    ELSE RoundDiv((2 * i - (grid - 1)) * size * Micro,
                  2 * (grid - 1) * kmPerDegLat)

\* lonOffset = (j / (grid - 1) - 0.5) * size / kmPerDegLon, with
\* kmPerDegLon = 111 * cos(centerLat).
LonOffset(j, grid, size, centerLat) ==
    IF grid = 1 \/ IsNaN(centerLat) THEN NaN
    ELSE LET km == RoundDiv((2 * j - (grid - 1)) * size * Micro, 2 * (grid - 1))
             kmPerDegLonCenti == (kmPerDegLat * CosMilli(centerLat)) \div 10
         IN RoundDiv(km * 100, kmPerDegLonCenti)

AddOffset(c, off) == IF IsNaN(c) \/ off = NaN THEN NaN ELSE c + off

\* The object pushed in iteration (i, j); toFixed(6) keeps the six decimals
\* the coordinates of the model have.
GridPoint(centerLat, centerLon, size, grid, i, j) ==
    [lat |-> AddOffset(centerLat, LatOffset(i, grid, size)),
     lon |-> AddOffset(centerLon, LonOffset(j, grid, size, centerLat))]

\* What the inner loop (j = 0 .. grid - 1) pushes in iteration i of the outer.
GridRow(centerLat, centerLon, size, grid, i) ==
    [jj \in 1..grid |-> GridPoint(centerLat, centerLon, size, grid, i, jj - 1)]

\* What the inner loop would push with the roles of i and j exchanged.
GridColumn(centerLat, centerLon, size, grid, j) ==
    [ii \in 1..grid |-> GridPoint(centerLat, centerLon, size, grid, ii - 1, j)]

\* locations after the first n iterations of the outer loop.
RECURSIVE PushRows(_, _, _, _, _)
PushRows(centerLat, centerLon, size, grid, n) ==
    IF n = 0 THEN << >>
    ELSE PushRows(centerLat, centerLon, size, grid, n - 1)
            \o GridRow(centerLat, centerLon, size, grid, n - 1)

RECURSIVE PushColumns(_, _, _, _, _)
PushColumns(centerLat, centerLon, size, grid, n) ==
    IF n = 0 THEN << >>
    ELSE PushColumns(centerLat, centerLon, size, grid, n - 1)
            \o GridColumn(centerLat, centerLon, size, grid, n - 1)

\* The grid generated with j outer and i inner.
GenerateGridColumnMajor(centerLat, centerLon, size, grid) ==
    IF grid < 1 THEN << >>
    ELSE PushColumns(centerLat, centerLon, size, grid, grid)

\* The nested loops over i (outer) and j (inner).
GenerateGrid(centerLat, centerLon, size, grid) ==
    IF grid < 1 THEN << >>
    ELSE PushRows(centerLat, centerLon, size, grid, grid)

\* ------------------------------------------------- elevation collaborator
\* What the dataset holds for a coordinate: metres, or null where it has no
\* value.
Terrain(loc) ==
    IF loc.lat = NaN \/ loc.lon = NaN THEN Null
    ELSE LET c == ((Abs(loc.lat) \div 100) * 7 + (Abs(loc.lon) \div 100) * 3) % 11
         IN IF c = 0 THEN Null ELSE (c - 3) * 100

\* A response: whether the call throws, whether its status is ok, and the
\* status and results of its body; isArray tells an array of results from a
\* (non-empty) string, whose characters have no elevation.
ElevOk(results) ==
    [throws |-> FALSE, ok |-> TRUE, status |-> "OK", hasResults |-> TRUE,
     isArray |-> TRUE, results |-> results]
ElevFail(throws, ok, status) ==
    [throws |-> throws, ok |-> ok, status |-> status, hasResults |-> FALSE,
     isArray |-> FALSE, results |-> << >>]
ElevText(n) ==
    [throws |-> FALSE, ok |-> TRUE, status |-> "OK", hasResults |-> TRUE,
     isArray |-> FALSE, results |-> [k \in 1..n |-> Undefined]]

\* The response the dataset gives to a batch: one value per coordinate, in
\* order; a coordinate that is no number is refused (HTTP 400).
NominalElevation(batch) ==
    IF \E k \in DOMAIN batch : batch[k].lat = NaN \/ batch[k].lon = NaN
    THEN ElevFail(FALSE, FALSE, "INVALID_REQUEST")
    ELSE ElevOk([k \in DOMAIN batch |-> Terrain(batch[k])])

\* Every other response: the call fails, the status is not ok, the body reports
\* an error or has no results, or (for coordinates that are numbers) the
\* results are one too few, one too many, all null, lack a value for the
\* first coordinate, or are a string instead of an array.
DeviantElevations(batch) ==
    LET nominal == NominalElevation(batch)
        full == nominal.results
    IN ({ ElevFail(TRUE, FALSE, "NONE"),
          ElevFail(FALSE, FALSE, "SERVER_ERROR"),
          ElevFail(FALSE, TRUE, "INVALID_REQUEST"),
          ElevFail(FALSE, TRUE, "OK") }
        \cup (IF nominal.ok
              THEN { ElevOk(SubSeq(full, 1, Len(full) - 1)),
                     ElevOk(Append(full, 0)),
                     ElevOk([k \in DOMAIN full |-> Null]),
                     ElevOk([k \in DOMAIN full |->
                               IF k = 1 THEN Undefined ELSE full[k]]),
                     ElevText(Len(full)) }
              ELSE { }))
       \ {nominal}

\* -------------------------------------------------- geocoding collaborator
\* A name: the candidate's display_name, undefined when the candidate has none,
\* or the text the handler builds from the coordinates' four decimals.
GeoName == [kind |-> "display", a |-> ToFixed(0, 4), b |-> ToFixed(0, 4)]
NoName == [kind |-> "undefined", a |-> ToFixed(0, 4), b |-> ToFixed(0, 4)]
Candidate(lat, lon, nm) == [lat |-> lat, lon |-> lon, display_name |-> nm]

\* The call fails, the status is not ok, or the body is null, an empty list or
\* a list whose first candidate has lat, lon (strings) and display_name.
GeoResponses ==
    { [kind |-> k, cands |-> << >>] : k \in {"throws", "notOk", "null", "list"} }
    \cup { [kind |-> "list", cands |-> <<c>>] :
             c \in { Candidate(Num(LatA), Num(LonA), GeoName),
                     Candidate(Num(LatA), Num(LonA), NoName),
                     Candidate(Text, Num(LonA), GeoName) } }

\* ----------------------------------------------------------------- JSON
\* A number in JSON text: NaN and undefined array elements are written null.
JsonNum(e) == IF e = NaN \/ e = Undefined THEN Null ELSE e

\* JSON.stringify of a result object (and JSON.parse of the text: a JSON
\* value is modelled by the object it parses to): a property whose value is
\* undefined is left out, array elements that are undefined become null.
\* JSON.stringify of an array: the array is taken once and each of its
\* elements converted.
JsonArray(a) ==
    CHOOSE s \in { [k \in DOMAIN v |-> JsonNum(v[k])] : v \in {a} } : TRUE

Stringify(o) ==
    [f \in { g \in DOMAIN o : ~(g = "name" /\ o[g] = NoName) } |->
        IF f = "elevations" THEN JsonArray(o[f]) ELSE o[f]]

\* The cached value returned as it is, without the flag.
SpreadNoFlag(cached) == cached

\* { ...cached, cached: true }
SpreadCached(cached) == [cached |-> TRUE] @@ cached

\* ------------------------------------------------------------------ state
VARIABLES
    h,           \* h[p]: the locals of handler invocation p and where it stands
    store,       \* env.CACHE: the KV namespace, key -> stored JSON value
    cacheBound,  \* whether the deployment binds env.CACHE
    origin,      \* key -> the result object whose put wrote the entry
    served,      \* served[p]: the result object behind the entry p was served
    nreq,        \* requests received so far
    ndev         \* deviant elevation responses so far

vars == <<h, store, cacheBound, origin, served, nreq, ndev>>

Procs == 1..NumProcs

NoResult == [none |-> TRUE]
NoResponse == [status |-> 0, body |-> NoResult]

\* An invocation that has not started: no response, nothing called.
IdleFrame ==
    [pc |-> "idle", ret |-> "none",
     q |-> Absent, lat |-> Absent, lon |-> Absent, gridParam |-> Absent,
     size |-> 0, grid |-> 0,
     centerLat |-> NaN, centerLon |-> NaN, name |-> NoName,
     cacheKey |-> << >>, elevations |-> << >>, i |-> 0, sent |-> << >>,
     resp |-> NoResponse,
     gridMade |-> FALSE, geoRes |-> "none", elevRes |-> "none",
     nGeo |-> 0, nGet |-> 0, nPut |-> 0, nElev |-> 0, nDelay |-> 0,
     nResp |-> 0, nFired |-> 0]

\* ---------------------------------------------------------------- handler
\* return new Response(body, { status }) at the return site `ret`.
Respond(F, ret, status, body) ==
    [F EXCEPT !.pc = "done", !.ret = ret,
              !.resp = [status |-> status, body |-> body]]

\* throw new Error(msg), caught by the handler's catch: a 500 response.
Throw(F, msg) ==
    Respond(F, "catch", 500, [error |-> msg, details |-> <<"Error", msg>>])

\* elevations.filter(e => e !== null && !isNaN(e))
IsValid(e) == e # Null /\ ~IsNaN(e)
ValidElevations(elevations) == SelectSeq(elevations, IsValid)

Range(s) == UNION { { v[k] : k \in DOMAIN v } : v \in {s} }
MinOf(s) == LET R == Range(s) IN CHOOSE m \in R : \A x \in R : m <= x
MaxOf(s) == LET R == Range(s) IN CHOOSE m \in R : \A x \in R : m >= x

\* const locations: empty until the grid is generated, and from then on the
\* grid of the centre, size and grid of the request (none of them changes).
NumLocations(F) == IF F.gridMade /\ F.grid >= 1 THEN F.grid * F.grid ELSE 0
Locations(F) ==
    IF F.gridMade THEN GenerateGrid(F.centerLat, F.centerLon, F.size, F.grid)
    ELSE << >>

\* A minimum taken to be the first valid sample.
MinElevFirst(valid) == valid[1]

\* minElev: Math.min(...validElevations), and maxElev.
MinElev(valid) == MinOf(valid)
MaxElev(valid) == MaxOf(valid)

\* The result with the invalid entries dropped from elevations.
ResultFiltered(F) ==
    LET valid == ValidElevations(F.elevations)
    IN [name |-> F.name, center |-> <<F.centerLat, F.centerLon>>,
        elevations |-> valid,
        minElev |-> MinElev(valid), maxElev |-> MaxElev(valid),
        grid |-> F.grid]

\* const result, once the batch loop has ended with a valid sample.
Result(F) ==
    LET valid == ValidElevations(F.elevations)
    IN [name |-> F.name, center |-> <<F.centerLat, F.centerLon>>,
        elevations |-> F.elevations,
        minElev |-> MinElev(valid), maxElev |-> MaxElev(valid),
        grid |-> F.grid]

\* The same without the test for an empty set of valid samples: Math.min and
\* Math.max of nothing are infinite, written null.
FinishFetchUnchecked(F, cb) ==
    IF cb
    THEN [F EXCEPT !.pc = "cachePut", !.nPut = @ + 1]
    ELSE Respond(F, "fresh", 200,
                 IF Len(ValidElevations(F.elevations)) = 0
                 THEN [name |-> F.name, center |-> <<F.centerLat, F.centerLon>>,
                       elevations |-> [k \in DOMAIN F.elevations |-> Null],
                       minElev |-> Null, maxElev |-> Null, grid |-> F.grid]
                 ELSE Stringify(Result(F)))

\* The aggregation, the cache store and the success response.
FinishFetch(F, cb) ==
    IF Len(ValidElevations(F.elevations)) = 0
    THEN Throw(F, "No valid elevation data for this location")
    ELSE IF cb
         THEN [F EXCEPT !.pc = "cachePut", !.nPut = @ + 1]
         ELSE Respond(F, "fresh", 200, Stringify(Result(F)))

\* The batch of the current iteration: locations.slice(i, i + BATCH_SIZE).
Batch(F) ==
    LET n == NumLocations(F)
        last == IF F.i + BATCH_SIZE < n THEN F.i + BATCH_SIZE ELSE n
    IN SubSeq(Locations(F), F.i + 1, last)

\* The test of the batch loop: the next batch is requested (sent records the
\* coordinates of the calls issued so far, in order), or the loop ends.
LoopTest(F, cb) ==
    IF F.i < NumLocations(F)
    THEN [F EXCEPT !.pc = "elevFetch", !.nElev = @ + 1, !.sent = @ \o Batch(F)]
    ELSE FinishFetch(F, cb)

\* After a cache miss: the grid is generated and the batch loop is entered.
StartPipeline(F, cb) ==
    LoopTest([F EXCEPT !.gridMade = TRUE, !.elevations = << >>, !.i = 0], cb)

CacheKey(centerLat, centerLon, size, grid) ==
    <<ToFixed(centerLat, 4), ToFixed(centerLon, 4), size, grid>>

\* The same with the grid generated before the cache is looked up.
AfterResolveEagerGrid(F, cb) ==
    IF IsNaN(F.centerLat) \/ IsNaN(F.centerLon)
    THEN Respond(F, "invalidCoords", 400, [error |-> "Invalid coordinates"])
    ELSE LET G == [F EXCEPT
                     !.gridMade = TRUE,
                     !.cacheKey = CacheKey(F.centerLat, F.centerLon, F.size, F.grid)]
         IN IF cb
            THEN [G EXCEPT !.pc = "cacheGet", !.nGet = @ + 1]
            ELSE StartPipeline(G, cb)

\* The same without the validation of the coordinates.
AfterResolveUnchecked(F, cb) ==
    LET G == [F EXCEPT
                !.cacheKey = CacheKey(F.centerLat, F.centerLon, F.size, F.grid)]
    IN IF cb
       THEN [G EXCEPT !.pc = "cacheGet", !.nGet = @ + 1]
       ELSE StartPipeline(G, cb)

\* Coordinate validation, the cache key and the cache lookup.
AfterResolve(F, cb) ==
    IF IsNaN(F.centerLat) \/ IsNaN(F.centerLon)
    THEN Respond(F, "invalidCoords", 400, [error |-> "Invalid coordinates"])
    ELSE LET G == [F EXCEPT
                     !.cacheKey = CacheKey(F.centerLat, F.centerLon, F.size, F.grid)]
         IN IF cb
            THEN [G EXCEPT !.pc = "cacheGet", !.nGet = @ + 1]
            ELSE StartPipeline(G, cb)

CoordsName(lat, lon) == [kind |-> "coords", a |-> ToFixed(lat, 4), b |-> ToFixed(lon, 4)]

\* The same with a complete lat / lon pair preferred to q.
HandleRequestCoordsFirst(r, cb) ==
    LET F == [IdleFrame EXCEPT
                !.q = r.q, !.lat = r.lat, !.lon = r.lon, !.gridParam = r.grid,
                !.size = OrDefault(ParseFloat(r.size), DefaultSize),
                !.grid = OrDefault(ParseInt(r.grid), DefaultGrid)]
    IN IF Truthy(r.lat) /\ Truthy(r.lon)
       THEN AfterResolve([F EXCEPT
                            !.centerLat = ParseFloat(r.lat),
                            !.centerLon = ParseFloat(r.lon),
                            !.name = CoordsName(ParseFloat(r.lat),
                                                ParseFloat(r.lon))], cb)
       ELSE IF Truthy(r.q)
            THEN [F EXCEPT !.pc = "geocode", !.nGeo = @ + 1]
            ELSE Respond(F, "missingParams", 400,
                         [error |-> "Provide ?q=location or ?lat=X&lon=Y"])

\* The handler from the parsing of the query string to its first await or
\* return.
HandleRequest(r, cb) ==
    LET F == [IdleFrame EXCEPT
                !.q = r.q, !.lat = r.lat, !.lon = r.lon, !.gridParam = r.grid,
                !.size = OrDefault(ParseFloat(r.size), DefaultSize),
                !.grid = OrDefault(ParseInt(r.grid), DefaultGrid)]
    IN IF Truthy(r.q)
       THEN [F EXCEPT !.pc = "geocode", !.nGeo = @ + 1]
       ELSE IF Truthy(r.lat) /\ Truthy(r.lon)
            THEN AfterResolve([F EXCEPT
                                 !.centerLat = ParseFloat(r.lat),
                                 !.centerLon = ParseFloat(r.lon),
                                 !.name = CoordsName(ParseFloat(r.lat),
                                                     ParseFloat(r.lon))], cb)
            ELSE Respond(F, "missingParams", 400,
                         [error |-> "Provide ?q=location or ?lat=X&lon=Y"])

\* What a geocoding response is: a failed call, a status that is not ok, a
\* null body, a list without candidates, or a list with one.
GeoClass(g) ==
    IF g.kind = "list" THEN (IF Len(g.cands) = 0 THEN "empty" ELSE "found")
    ELSE g.kind

\* The same without the test of the list's length: the first candidate of an
\* empty list is undefined and reading its lat throws.
OnGeocodeNoLengthCheck(F0, g, cb) ==
    LET F == [F0 EXCEPT !.geoRes = GeoClass(g)]
    IN IF g.kind = "throws" THEN Throw(F, "Network error")
       ELSE IF g.kind = "notOk" THEN Throw(F, "Geocoding failed")
       ELSE IF g.kind = "null"
       THEN Respond(F, "notFound", 404, [error |-> "Location not found"])
       ELSE IF Len(g.cands) = 0
       THEN Throw(F, "Cannot read properties of undefined")
       ELSE AfterResolve([F EXCEPT
                            !.centerLat = ParseFloat(g.cands[1].lat),
                            !.centerLon = ParseFloat(g.cands[1].lon),
                            !.name = g.cands[1].display_name], cb)

\* The same with a failed geocoding call answered like an empty list.
OnGeocodeFailureNotFound(F0, g, cb) ==
    LET F == [F0 EXCEPT !.geoRes = GeoClass(g)]
    IN IF g.kind \in {"throws", "notOk", "null"} \/ Len(g.cands) = 0
       THEN Respond(F, "notFound", 404, [error |-> "Location not found"])
       ELSE AfterResolve([F EXCEPT
                            !.centerLat = ParseFloat(g.cands[1].lat),
                            !.centerLon = ParseFloat(g.cands[1].lon),
                            !.name = g.cands[1].display_name], cb)

\* The same with a supplied lat / lon pair kept as the centre when there is
\* one.
OnGeocodeKeepSupplied(F0, g, cb) ==
    LET F == [F0 EXCEPT !.geoRes = GeoClass(g)]
        supplied == Truthy(F.lat) /\ Truthy(F.lon)
    IN IF g.kind = "throws" THEN Throw(F, "Network error")
       ELSE IF g.kind = "notOk" THEN Throw(F, "Geocoding failed")
       ELSE IF g.kind = "null" \/ Len(g.cands) = 0
       THEN Respond(F, "notFound", 404, [error |-> "Location not found"])
       ELSE AfterResolve([F EXCEPT
                            !.centerLat = IF supplied THEN ParseFloat(F.lat)
                                          ELSE ParseFloat(g.cands[1].lat),
                            !.centerLon = IF supplied THEN ParseFloat(F.lon)
                                          ELSE ParseFloat(g.cands[1].lon),
                            !.name = g.cands[1].display_name], cb)

\* The geocoding response arrives (geoRes records what it was).
OnGeocode(F0, g, cb) ==
    LET F == [F0 EXCEPT !.geoRes = GeoClass(g)]
    IN IF g.kind = "throws" THEN Throw(F, "Network error")
       ELSE IF g.kind = "notOk" THEN Throw(F, "Geocoding failed")
       ELSE IF g.kind = "null" \/ Len(g.cands) = 0
       THEN Respond(F, "notFound", 404, [error |-> "Location not found"])
       ELSE AfterResolve([F EXCEPT
                            !.centerLat = ParseFloat(g.cands[1].lat),
                            !.centerLon = ParseFloat(g.cands[1].lon),
                            !.name = g.cands[1].display_name], cb)

\* env.CACHE.get returns: the stored value or null, or the call fails.
OnCacheGet(F, fails, kv, cb) ==
    IF fails THEN Throw(F, "KV error")
    ELSE IF F.cacheKey \in DOMAIN kv
    THEN Respond(F, "cacheHit", 200, Stringify(SpreadCached(kv[F.cacheKey])))
    ELSE StartPipeline(F, cb)

\* A delay after every batch that is full, the last one too.
DelayFollowsInclusive(i, n) == i + BATCH_SIZE <= n

\* Whether the pacing delay follows the batch at index i.
DelayFollows(i, n) == i + BATCH_SIZE < n

\* What an elevation response is: a failed call, a status that is not ok, a
\* body that reports an error or has no results, results that are no array,
\* or results.
ElevClass(r) ==
    IF r.throws THEN "throws"
    ELSE IF ~r.ok THEN "notOk"
    ELSE IF r.status # "OK" \/ ~r.hasResults THEN "badBody"
    ELSE IF ~r.isArray THEN "notArray"
    ELSE "results"

\* The same with a failed batch skipped: it adds no values and the loop goes
\* on.
OnElevationLenient(F0, r, cb) ==
    LET F == [F0 EXCEPT !.elevRes = ElevClass(r), !.nResp = @ + 1]
        G == [F EXCEPT !.elevations =
                          IF ElevClass(r) = "results" THEN @ \o r.results ELSE @]
    IN IF DelayFollows(F.i, NumLocations(F))
       THEN [G EXCEPT !.pc = "delay", !.nDelay = @ + 1]
       ELSE LoopTest([G EXCEPT !.i = @ + BATCH_SIZE], cb)

\* The same with the values of a batch put before those of the earlier
\* batches.
OnElevationPrepend(F0, r, cb) ==
    LET F == [F0 EXCEPT !.elevRes = ElevClass(r), !.nResp = @ + 1]
    IN IF r.throws THEN Throw(F, "Network error")
       ELSE IF ~r.ok THEN Throw(F, "Elevation API failed")
       ELSE IF r.status # "OK" \/ ~r.hasResults
       THEN Throw(F, "Elevation API error")
       ELSE IF ~r.isArray
       THEN Throw(F, "elevData.results.map is not a function")
       ELSE LET G == [F EXCEPT !.elevations = r.results \o @]
            IN IF DelayFollows(F.i, NumLocations(F))
               THEN [G EXCEPT !.pc = "delay", !.nDelay = @ + 1]
               ELSE LoopTest([G EXCEPT !.i = @ + BATCH_SIZE], cb)

\* The same without the pacing delay: the next batch is requested at once.
OnElevationNoDelay(F0, r, cb) ==
    LET F == [F0 EXCEPT !.elevRes = ElevClass(r), !.nResp = @ + 1]
    IN IF r.throws THEN Throw(F, "Network error")
       ELSE IF ~r.ok THEN Throw(F, "Elevation API failed")
       ELSE IF r.status # "OK" \/ ~r.hasResults
       THEN Throw(F, "Elevation API error")
       ELSE IF ~r.isArray
       THEN Throw(F, "elevData.results.map is not a function")
       ELSE LoopTest([F EXCEPT !.elevations = @ \o r.results,
                               !.i = @ + BATCH_SIZE], cb)

\* The response to an elevation batch arrives (elevRes records what it was).
OnElevation(F0, r, cb) ==
    LET F == [F0 EXCEPT !.elevRes = ElevClass(r), !.nResp = @ + 1]
    IN IF r.throws THEN Throw(F, "Network error")
       ELSE IF ~r.ok THEN Throw(F, "Elevation API failed")
       ELSE IF r.status # "OK" \/ ~r.hasResults
       THEN Throw(F, "Elevation API error")
       ELSE IF ~r.isArray
       THEN Throw(F, "elevData.results.map is not a function")
       ELSE LET G == [F EXCEPT !.elevations = @ \o r.results]
            IN IF DelayFollows(F.i, NumLocations(F))
               THEN [G EXCEPT !.pc = "delay", !.nDelay = @ + 1]
               ELSE LoopTest([G EXCEPT !.i = @ + BATCH_SIZE], cb)

\* A pacing timer whose firing does not resume the loop.
OnTimerStalled(F, cb) == F

\* The pacing timer fires: i += BATCH_SIZE and the loop test.
OnTimer(F, cb) ==
    LoopTest([F EXCEPT !.i = @ + BATCH_SIZE, !.nFired = @ + 1], cb)

\* env.CACHE.put returns or fails.
OnCachePut(F, fails) ==
    IF fails THEN Throw(F, "KV error")
    ELSE Respond(F, "fresh", 200, Stringify(Result(F)))

\* ------------------------------------------- the uninstrumented revision
\* The revision of the handler without telemetry. Its text differs from the
\* instrumented handler's, spans and tags apart, in the name of a coordinate
\* request, in the way the elevations of a batch are collected and in the
\* length of the pacing delay; the stretches whose text is the same are
\* modelled by the same operators.

\* name = `${centerLat.toFixed(4)}°, ${centerLon.toFixed(4)}°`
PlainCoordsName(lat, lon) ==
    [kind |-> "coordsDegree", a |-> ToFixed(lat, 4), b |-> ToFixed(lon, 4)]

\* The revision from the parsing of the query string to its first await or
\* return.
PlainHandleRequest(r, cb) ==
    LET F == [IdleFrame EXCEPT
                !.q = r.q, !.lat = r.lat, !.lon = r.lon, !.gridParam = r.grid,
                !.size = OrDefault(ParseFloat(r.size), DefaultSize),
                !.grid = OrDefault(ParseInt(r.grid), DefaultGrid)]
    IN IF Truthy(r.q)
       THEN [F EXCEPT !.pc = "geocode", !.nGeo = @ + 1]
       ELSE IF Truthy(r.lat) /\ Truthy(r.lon)
            THEN AfterResolve([F EXCEPT
                                 !.centerLat = ParseFloat(r.lat),
                                 !.centerLon = ParseFloat(r.lon),
                                 !.name = PlainCoordsName(ParseFloat(r.lat),
                                                          ParseFloat(r.lon))], cb)
            ELSE Respond(F, "missingParams", 400,
                         [error |-> "Provide ?q=location or ?lat=X&lon=Y"])

\* The elevation request of a batch returns in the revision:
\* for (const result of elevData.results) elevations.push(result.elevation)
\* iterates an array and a string alike, and a character has no elevation.
PlainOnElevation(F0, r, cb) ==
    LET F == [F0 EXCEPT !.elevRes = ElevClass(r), !.nResp = @ + 1]
    IN IF r.throws THEN Throw(F, "Network error")
       ELSE IF ~r.ok THEN Throw(F, "Elevation API failed")
       ELSE IF r.status # "OK" \/ ~r.hasResults
       THEN Throw(F, "Elevation API error")
       ELSE LET G == [F EXCEPT !.elevations = @ \o r.results]
            IN IF DelayFollows(F.i, NumLocations(F))
               THEN [G EXCEPT !.pc = "delay", !.nDelay = @ + 1]
               ELSE LoopTest([G EXCEPT !.i = @ + BATCH_SIZE], cb)

\* ---------------------------------------------------------------- actions
Init ==
    /\ h = [p \in Procs |-> IdleFrame]
    /\ store = << >>
    /\ origin = << >>
    /\ served = [p \in Procs |-> NoResult]
    /\ cacheBound \in BOOLEAN
    /\ nreq = 0
    /\ ndev = 0

\* A request of more batches than the model lets deviate.
LongRequest(r) ==
    LET grid == OrDefault(ParseInt(r.grid), DefaultGrid)
    IN grid * grid > MaxDeviantBatches * BATCH_SIZE

\* A request arrives at an invocation that is idle or has responded; a long
\* request is the first of its behaviour.
Receive(p) ==
    /\ h[p].pc \in {"idle", "done"}
    /\ nreq < MaxRequests
    /\ \E r \in RequestParams :
          /\ LongRequest(r) => nreq = 0
          /\ h' = [h EXCEPT ![p] = HandleRequest(r, cacheBound)]
    /\ nreq' = nreq + 1
    /\ served' = [served EXCEPT ![p] = NoResult]
    /\ UNCHANGED <<store, cacheBound, origin, ndev>>

GeocodeReturns(p) ==
    /\ h[p].pc = "geocode"
    /\ \E g \in GeoResponses :
          h' = [h EXCEPT ![p] = OnGeocode(h[p], g, cacheBound)]
    /\ UNCHANGED <<store, cacheBound, origin, served, nreq, ndev>>

CacheGetReturns(p) ==
    /\ h[p].pc = "cacheGet"
    /\ \E fails \in BOOLEAN :
          /\ h' = [h EXCEPT ![p] = OnCacheGet(h[p], fails, store, cacheBound)]
          /\ served' = [served EXCEPT ![p] =
                          IF ~fails /\ h[p].cacheKey \in DOMAIN store
                          THEN origin[h[p].cacheKey] ELSE NoResult]
    /\ UNCHANGED <<store, cacheBound, origin, nreq, ndev>>

ElevationReturns(p) ==
    /\ h[p].pc = "elevFetch"
    /\ \/ /\ \E batch \in {Batch(h[p])} :
             \E r \in {NominalElevation(batch)} :
                h' = [h EXCEPT ![p] = OnElevation(h[p], r, cacheBound)]
          /\ ndev' = ndev
       \/ /\ ndev < MaxDeviations
          /\ NumLocations(h[p]) <= MaxDeviantBatches * BATCH_SIZE
          /\ \E r \in DeviantElevations(Batch(h[p])) :
                h' = [h EXCEPT ![p] = OnElevation(h[p], r, cacheBound)]
          /\ ndev' = ndev + 1
    /\ UNCHANGED <<store, cacheBound, origin, served, nreq>>

TimerFires(p) ==
    /\ h[p].pc = "delay"
    /\ h' = [h EXCEPT ![p] = OnTimer(h[p], cacheBound)]
    /\ UNCHANGED <<store, cacheBound, origin, served, nreq, ndev>>

CachePutReturns(p) ==
    /\ h[p].pc = "cachePut"
    /\ \E fails \in BOOLEAN :
          /\ h' = [h EXCEPT ![p] = OnCachePut(h[p], fails)]
          /\ store' = IF fails THEN store
                      ELSE (h[p].cacheKey :> Stringify(Result(h[p]))) @@ store
          /\ origin' = IF fails THEN origin
                       ELSE (h[p].cacheKey :> Result(h[p])) @@ origin
    /\ UNCHANGED <<cacheBound, served, nreq, ndev>>

\* The invocation whose requests are served one after the other.
Main == CHOOSE p \in Procs : \A o \in Procs : p <= o

Next ==
    \/ Receive(Main)
    \/ GeocodeReturns(Main)
    \/ CacheGetReturns(Main)
    \/ ElevationReturns(Main)
    \/ TimerFires(Main)
    \/ CachePutReturns(Main)

Spec == Init /\ [][Next]_vars

\* The requests of at most MaxDeviantBatches batches (one of each kind: q
\* alone, a pair, a partial or unreadable pair, nothing; one or two batches),
\* served one after the other, with every awaited collaborator call
\* eventually returning or failing and every pacing timer eventually firing;
\* no request is required to arrive.
LiveParams ==
    { r \in RequestParams :
        ~LongRequest(r) /\ r.q # EmptyStr /\ r.lat # Num(LatB) }

ReceiveLive(p) ==
    /\ h[p].pc \in {"idle", "done"}
    /\ nreq < MaxRequests
    /\ \E r \in LiveParams :
          h' = [h EXCEPT ![p] = HandleRequest(r, cacheBound)]
    /\ nreq' = nreq + 1
    /\ served' = [served EXCEPT ![p] = NoResult]
    /\ UNCHANGED <<store, cacheBound, origin, ndev>>

NextLive ==
    \/ ReceiveLive(Main)
    \/ GeocodeReturns(Main)
    \/ CacheGetReturns(Main)
    \/ ElevationReturns(Main)
    \/ TimerFires(Main)
    \/ CachePutReturns(Main)

SpecLive ==
    /\ Init /\ [][NextLive]_vars
    /\ WF_vars(GeocodeReturns(Main))
    /\ WF_vars(CacheGetReturns(Main))
    /\ WF_vars(ElevationReturns(Main))
    /\ WF_vars(TimerFires(Main))
    /\ WF_vars(CachePutReturns(Main))

\* Concurrent invocations: the runtime interleaves the stretches of every
\* invocation in flight; each receives one of the racing requests.
ReceiveRacing(p) ==
    /\ h[p].pc \in {"idle", "done"}
    /\ nreq < MaxRequests
    /\ \E r \in RacingParams :
          h' = [h EXCEPT ![p] = HandleRequest(r, cacheBound)]
    /\ nreq' = nreq + 1
    /\ served' = [served EXCEPT ![p] = NoResult]
    /\ UNCHANGED <<store, cacheBound, origin, ndev>>

NextRacing ==
    \E p \in Procs :
        \/ ReceiveRacing(p)
        \/ GeocodeReturns(p)
        \/ CacheGetReturns(p)
        \/ ElevationReturns(p)
        \/ TimerFires(p)
        \/ CachePutReturns(p)

SpecRacing == Init /\ [][NextRacing]_vars

\* Concurrent invocations, each with one of the requests whose keys are
\* compared (none has q and none has more than one batch).
ReceiveKeyed(p) ==
    /\ h[p].pc \in {"idle", "done"}
    /\ nreq < MaxRequests
    /\ \E r \in KeyParams :
          h' = [h EXCEPT ![p] = HandleRequest(r, cacheBound)]
    /\ nreq' = nreq + 1
    /\ served' = [served EXCEPT ![p] = NoResult]
    /\ UNCHANGED <<store, cacheBound, origin, ndev>>

NextKeyed ==
    \E p \in Procs :
        \/ ReceiveKeyed(p)
        \/ CacheGetReturns(p)
        \/ ElevationReturns(p)
        \/ CachePutReturns(p)

SpecKeyed == Init /\ [][NextKeyed]_vars

\* The two revisions side by side: invocation Main runs the instrumented
\* handler and invocation Plain the uninstrumented revision, on the same
\* request, with the same cache contents (both read the one store, written
\* with the instrumented handler's entries) and the same response to every
\* call. A step is taken while the two are at the same await; once one has
\* returned where the other awaits, no response can be the same for both.
Plain == CHOOSE p \in Procs \ {Main} : \A o \in Procs \ {Main} : p <= o

TwinParams ==
    RacingParams \cup
    { r \in RequestParams : r.grid = Num(2) /\ r.q = Absent /\ r.size = Absent }

InStep(pcs) == h[Main].pc \in pcs /\ h[Plain].pc \in pcs

TwinReceive ==
    /\ InStep({"idle", "done"})
    /\ h[Main].pc = h[Plain].pc
    /\ nreq < MaxRequests
    /\ \E r \in TwinParams :
          h' = [h EXCEPT ![Main] = HandleRequest(r, cacheBound),
                         ![Plain] = PlainHandleRequest(r, cacheBound)]
    /\ nreq' = nreq + 1
    /\ served' = [served EXCEPT ![Main] = NoResult, ![Plain] = NoResult]
    /\ UNCHANGED <<store, cacheBound, origin, ndev>>

TwinGeocodeReturns ==
    /\ InStep({"geocode"})
    /\ \E g \in GeoResponses :
          h' = [h EXCEPT ![Main] = OnGeocode(h[Main], g, cacheBound),
                         ![Plain] = OnGeocode(h[Plain], g, cacheBound)]
    /\ UNCHANGED <<store, cacheBound, origin, served, nreq, ndev>>

TwinCacheGetReturns ==
    /\ InStep({"cacheGet"})
    /\ \E fails \in BOOLEAN :
          /\ h' = [h EXCEPT
                     ![Main] = OnCacheGet(h[Main], fails, store, cacheBound),
                     ![Plain] = OnCacheGet(h[Plain], fails, store, cacheBound)]
          /\ served' = [p \in Procs |->
                          IF p \in {Main, Plain} /\ ~fails
                             /\ h[p].cacheKey \in DOMAIN store
                          THEN origin[h[p].cacheKey]
                          ELSE IF p \in {Main, Plain} THEN NoResult
                          ELSE served[p]]
    /\ UNCHANGED <<store, cacheBound, origin, nreq, ndev>>

TwinElevationReturns ==
    /\ InStep({"elevFetch"})
    /\ Batch(h[Main]) = Batch(h[Plain])
    /\ \/ /\ LET r == NominalElevation(Batch(h[Main]))
             IN h' = [h EXCEPT
                        ![Main] = OnElevation(h[Main], r, cacheBound),
                        ![Plain] = PlainOnElevation(h[Plain], r, cacheBound)]
          /\ ndev' = ndev
       \/ /\ ndev < MaxDeviations
          /\ NumLocations(h[Main]) <= MaxDeviantBatches * BATCH_SIZE
          /\ \E r \in DeviantElevations(Batch(h[Main])) :
                h' = [h EXCEPT
                        ![Main] = OnElevation(h[Main], r, cacheBound),
                        ![Plain] = PlainOnElevation(h[Plain], r, cacheBound)]
          /\ ndev' = ndev + 1
    /\ UNCHANGED <<store, cacheBound, origin, served, nreq>>

TwinTimerFires ==
    /\ InStep({"delay"})
    /\ h' = [h EXCEPT ![Main] = OnTimer(h[Main], cacheBound),
                      ![Plain] = OnTimer(h[Plain], cacheBound)]
    /\ UNCHANGED <<store, cacheBound, origin, served, nreq, ndev>>

TwinCachePutReturns ==
    /\ InStep({"cachePut"})
    /\ \E fails \in BOOLEAN :
          /\ h' = [h EXCEPT ![Main] = OnCachePut(h[Main], fails),
                            ![Plain] = OnCachePut(h[Plain], fails)]
          /\ store' = IF fails THEN store
                      ELSE (h[Main].cacheKey :> Stringify(Result(h[Main])))
                           @@ store
          /\ origin' = IF fails THEN origin
                       ELSE (h[Main].cacheKey :> Result(h[Main])) @@ origin
    /\ UNCHANGED <<cacheBound, served, nreq, ndev>>

NextTwin ==
    \/ TwinReceive
    \/ TwinGeocodeReturns
    \/ TwinCacheGetReturns
    \/ TwinElevationReturns
    \/ TwinTimerFires
    \/ TwinCachePutReturns

SpecTwin == Init /\ [][NextTwin]_vars

\* ----------------------------------------------------------------- claims
Done(p) == h[p].pc = "done"
Success(p) == Done(p) /\ h[p].resp.status = 200
Body(p) == h[p].resp.body
FromCache(p) == Done(p) /\ h[p].ret = "cacheHit"
Fresh(p) == Done(p) /\ h[p].ret = "fresh"

\* C1: every 200 response carries an elevations array of exactly grid * grid
\* entries, whatever the elevation collaborator answered.
C1_FullGridOnSuccess ==
    \A p \in Procs :
        Success(p) => /\ "elevations" \in DOMAIN Body(p)
                      /\ Len(Body(p).elevations) = h[p].grid * h[p].grid

\* The valid entries of an elevations array of a response body.
ValidEntries(b) == { b.elevations[k] : k \in { j \in DOMAIN b.elevations :
                                                 b.elevations[j] # Null } }

\* C2: in every 200 response minElev <= maxElev, every valid entry of
\* elevations lies between them, and both are values of valid entries.
C2_MinMaxBoundValidSamples ==
    \A p \in Procs :
        Success(p) =>
            LET b == Body(p)
            IN /\ b.minElev <= b.maxElev
               /\ \A x \in ValidEntries(b) : b.minElev <= x /\ x <= b.maxElev
               /\ b.minElev \in ValidEntries(b)
               /\ b.maxElev \in ValidEntries(b)

\* A 200 response whose samples are not all valid and whose first valid sample
\* is neither the smallest nor the largest.
C2_Witness ==
    \E p \in Procs :
        /\ Success(p)
        /\ \E k \in DOMAIN Body(p).elevations : Body(p).elevations[k] = Null
        /\ LET v == ValidElevations(Body(p).elevations)
           IN Body(p).minElev < v[1] /\ v[1] < Body(p).maxElev

\* C3: a cache hit returns the stored result of the request that computed it
\* with only cached: true added; no stored entry has the cached field, every
\* stored entry is the body its request answered with, and no freshly computed
\* response has the field.
C3_CacheHitIsStoredResult ==
    /\ \A p \in Procs :
          FromCache(p) =>
              /\ h[p].resp.status = 200
              /\ Body(p) = [cached |-> TRUE] @@ Stringify(served[p])
              /\ DOMAIN Body(p) = DOMAIN Stringify(served[p]) \cup {"cached"}
    /\ \A k \in DOMAIN store :
          "cached" \notin DOMAIN store[k] /\ store[k] = Stringify(origin[k])
    /\ \A p \in Procs :
          Fresh(p) =>
              /\ "cached" \notin DOMAIN Body(p)
              /\ h[p].nPut = 1 => /\ h[p].cacheKey \in DOMAIN store
                                  /\ store[h[p].cacheKey] = Body(p)

\* A request served from the cache an entry whose result object held an
\* undefined elevation (written null in the stored text).
C3_Witness ==
    \E p \in Procs :
        /\ FromCache(p)
        /\ \E k \in DOMAIN served[p].elevations :
              served[p].elevations[k] = Undefined

\* C4: a request served from cache calls the elevation collaborator never,
\* generates no grid, waits for no pacing delay and puts nothing in the cache.
C4_CacheHitSkipsPipeline ==
    \A p \in Procs :
        FromCache(p) => /\ h[p].nElev = 0
                        /\ h[p].nDelay = 0
                        /\ h[p].nPut = 0
                        /\ ~h[p].gridMade
                        /\ h[p].elevations = << >>

\* A request served from the cache after the lookup of its key.
C4_Witness ==
    \E p \in Procs : FromCache(p) /\ h[p].nGet = 1 /\ h[p].cacheKey \in DOMAIN store

\* Whether the request has (non-empty) q, and whether its centre has been
\* assigned: from the first candidate, or from a complete lat / lon pair.
HasQ(p) == Truthy(h[p].q)
Resolved(p) ==
    \/ HasQ(p) /\ h[p].geoRes = "found"
    \/ ~HasQ(p) /\ h[p].pc # "idle" /\ Truthy(h[p].lat) /\ Truthy(h[p].lon)

NumBatches(n) == (n + BATCH_SIZE - 1) \div BATCH_SIZE

\* C6: a successful cache-miss request over n = grid * grid points has issued
\* ceil(n / 100) elevation calls and ceil(n / 100) - 1 pacing delays; while it
\* runs, a delay has followed every call but the one in flight, and none
\* follows the last call.
C6_BatchAndDelayCounts ==
    \A p \in Procs :
        LET n == h[p].grid * h[p].grid
            k == h[p].i \div BATCH_SIZE + 1
        IN /\ h[p].pc = "elevFetch" => h[p].nElev = k /\ h[p].nDelay = k - 1
           /\ h[p].pc = "delay" =>
                 h[p].nElev = k /\ h[p].nDelay = k /\ k < NumBatches(n)
           /\ (h[p].pc = "cachePut" \/ Fresh(p)) =>
                 /\ h[p].nElev = NumBatches(n)
                 /\ h[p].nDelay = NumBatches(n) - 1

\* A successful request at the default grid: 1600 points, 16 calls, 15
\* delays.
C6_Witness ==
    \E p \in Procs :
        /\ Fresh(p) /\ h[p].grid = DefaultGrid
        /\ h[p].nElev = 16 /\ h[p].nDelay = 15

\* C7: when an elevation batch returns a status that is not ok, or a body
\* that reports an error or has no results, the request ends with a 500
\* response, has put nothing in the cache and issues no elevation call after
\* the failed one.
C7_FailedBatchAborts ==
    \A p \in Procs :
        h[p].elevRes \in {"notOk", "badBody"} =>
            /\ Done(p)
            /\ h[p].resp.status = 500
            /\ "error" \in DOMAIN Body(p)
            /\ h[p].nPut = 0
            /\ h[p].nElev = h[p].i \div BATCH_SIZE + 1

\* The first of two batches failed: the second was never requested.
C7_Witness ==
    \E p \in Procs :
        /\ h[p].elevRes = "notOk"
        /\ h[p].nElev = 1
        /\ NumLocations(h[p]) > BATCH_SIZE

\* C8: a request with q for which the geocoding collaborator returns no
\* candidate ends with 404 and {"error":"Location not found"}, without cache
\* lookup, cache put or elevation call.
C8_NoCandidateIs404 ==
    \A p \in Procs :
        (HasQ(p) /\ h[p].geoRes = "empty") =>
            /\ Done(p)
            /\ h[p].resp = [status |-> 404,
                            body |-> [error |-> "Location not found"]]
            /\ h[p].nGet = 0 /\ h[p].nPut = 0 /\ h[p].nElev = 0

\* The geocoding collaborator answered a request with an empty list.
C8_Witness ==
    \E p \in Procs : HasQ(p) /\ h[p].geoRes = "empty" /\ h[p].nGeo = 1

\* C9: a request without q that lacks lat or lon, and a request whose resolved
\* latitude or longitude is not a number, ends with 400 without cache lookup,
\* cache put or elevation call, and without geocoding call when q is absent.
C9_BadParametersAre400 ==
    \A p \in Procs :
        /\ (h[p].pc # "idle" /\ ~HasQ(p)
               /\ ~(Truthy(h[p].lat) /\ Truthy(h[p].lon))) =>
              /\ Done(p) /\ h[p].resp.status = 400
              /\ h[p].nGeo = 0 /\ h[p].nGet = 0
              /\ h[p].nPut = 0 /\ h[p].nElev = 0
        /\ (Resolved(p) /\ (IsNaN(h[p].centerLat) \/ IsNaN(h[p].centerLon))) =>
              /\ Done(p) /\ h[p].resp.status = 400
              /\ h[p].nGet = 0 /\ h[p].nPut = 0 /\ h[p].nElev = 0
              /\ ~HasQ(p) => h[p].nGeo = 0

\* A request without q whose lat is not a number, refused.
C9_Witness ==
    \E p \in Procs :
        /\ ~HasQ(p) /\ Resolved(p) /\ IsNaN(h[p].centerLat)
        /\ h[p].ret = "invalidCoords"

\* C10: with the cache store bound, a request that reached the cache (its
\* location resolved to numbers), met no failed elevation batch and, when it
\* fetched, got a valid sample, ends with 200, also when a get or put on the
\* store fails.
C10_CacheIsBestEffort ==
    \A p \in Procs :
        (/\ Done(p)
         /\ h[p].nGet > 0
         /\ h[p].elevRes \in {"none", "results"}
         /\ h[p].gridMade => Len(ValidElevations(h[p].elevations)) > 0)
        => h[p].resp.status = 200

\* C11: under every interleaving of concurrent requests a cache entry is
\* never changed once written: every put to a key that holds an entry writes
\* the value already stored.
C11_EntryNeverChanges ==
    [][\A k \in DOMAIN store : k \in DOMAIN store' /\ store'[k] = store[k]]_vars

\* The sample of row i = (k - 1) div grid and column j = (k - 1) mod grid, for
\* a position k counted from 1.
SampleAt(centerLat, centerLon, size, grid, k) ==
    GridPoint(centerLat, centerLon, size, grid, (k - 1) \div grid, (k - 1) % grid)

\* C12: for grid >= 2 the generated grid has exactly grid * grid samples in
\* row-major order: the sample at position k (from 0) is the one of
\* i = k div grid, j = k mod grid.
C12_RowMajorGrid ==
    \A p \in Procs :
        (h[p].gridMade /\ h[p].grid >= 2) =>
            LET F == h[p]
                locations == Locations(F)
            IN /\ Len(locations) = F.grid * F.grid
               /\ \A k \in DOMAIN locations :
                     locations[k] =
                        SampleAt(F.centerLat, F.centerLon, F.size, F.grid, k)

\* A generated grid of 11 rows whose second row starts at position 11 (from
\* 0) with another latitude and the longitude of position 0.
C12_Witness ==
    \E p \in Procs :
        /\ h[p].gridMade /\ h[p].grid = 11
        /\ LET locations == Locations(h[p])
           IN /\ Len(locations) = 121
              /\ locations[12].lat # locations[1].lat
              /\ locations[12].lon = locations[1].lon
              /\ locations[2].lon # locations[1].lon

\* C13: the first row of the generated grid (i = 0) holds the largest
\* latitude, latitude decreases as the row index grows, and longitude
\* increases as the column index grows.
C13_TopRowLargestLatitude ==
    \A p \in Procs :
        (h[p].gridMade /\ h[p].grid >= 2) =>
            LET grid == h[p].grid
                locations == Locations(h[p])
            IN /\ \A i \in 0..(grid - 2), j \in 0..(grid - 1) :
                     locations[i * grid + j + 1].lat
                        > locations[(i + 1) * grid + j + 1].lat
               /\ \A i \in 0..(grid - 1), j \in 0..(grid - 2) :
                     locations[i * grid + j + 1].lon
                        < locations[i * grid + j + 2].lon

\* C14: a request with grid = 1 is rejected or handled apart: it generates no
\* grid by the division by grid - 1, and no coordinate sent to the elevation
\* collaborator is not-a-number.
C14_GridOneNotSampled ==
    \A p \in Procs :
        /\ h[p].grid = 1 => ~h[p].gridMade
        /\ h[p].pc = "elevFetch" =>
              LET batch == Batch(h[p])
              IN \A k \in DOMAIN batch :
                    batch[k].lat # NaN /\ batch[k].lon # NaN

\* C15: every 200 response to a request given by lat / lon without q, computed
\* or served from cache, has as center the pair parsed from the request and
\* as grid the grid of the request.
C15_CenterIsRequested ==
    \A p \in Procs :
        (Success(p) /\ ~HasQ(p)) =>
            /\ Body(p).center = <<ParseFloat(h[p].lat), ParseFloat(h[p].lon)>>
            /\ Body(p).grid = h[p].grid

\* C16: when the grid parameter is omitted, the grid resolution used for
\* sampling and reported in the response's grid field is 20, the default of
\* the API documentation.
C16_DefaultGridIsDocumented ==
    \A p \in Procs :
        (h[p].pc # "idle" /\ h[p].gridParam = Absent) =>
            /\ h[p].grid = DocumentedGrid
            /\ h[p].gridMade => NumLocations(h[p]) = DocumentedGrid * DocumentedGrid
            /\ Success(p) => Body(p).grid = DocumentedGrid

\* The smaller of two numbers.
Min(a, b) == IF a < b THEN a ELSE b

\* C17: the batches are consecutive slices of at most 100 coordinates that
\* cover the sample sequence once, in its order; and while every batch has
\* returned the dataset's value of each coordinate, in request order,
\* elevations[k] is the elevation of the k-th sample, with all grid * grid of
\* them when the loop has ended.
C17_OrderPreserved ==
    \A p \in Procs :
        h[p].gridMade =>
            LET F == h[p]
                locations == Locations(F)
                n == Len(locations)
                ended == F.pc = "cachePut" \/ Fresh(p)
            IN /\ Len(F.sent) = Min(F.nElev * BATCH_SIZE, n)
               /\ F.sent = SubSeq(locations, 1, Len(F.sent))
               /\ F.pc = "elevFetch" =>
                     /\ Batch(F) = SubSeq(F.sent, F.i + 1, Len(F.sent))
                     /\ Len(Batch(F)) \in 1..BATCH_SIZE
                     /\ Len(F.elevations) = F.i \/ ndev > 0
               /\ ended => F.sent = locations
               /\ ndev = 0 =>
                     /\ \A k \in DOMAIN F.elevations :
                           F.elevations[k] = Terrain(locations[k])
                     /\ ended => Len(F.elevations) = n

\* A request of two batches has ended, every batch answered from the dataset:
\* the values of the second batch follow those of the first and differ from
\* them.
C17_Witness ==
    \E p \in Procs :
        /\ Fresh(p) /\ ndev = 0 /\ h[p].nElev = 2
        /\ Len(h[p].elevations) = 121
        /\ \E k \in 1..21 : h[p].elevations[k] # h[p].elevations[k + BATCH_SIZE]

\* C18: within a request at most one elevation call is outstanding, and a
\* call after the first is issued only when the response of the one before it
\* has been received and the pacing delay that followed it has elapsed.
\* (nElev counts the calls issued, nResp the responses received, nDelay the
\* delays started, nFired the delays elapsed.)
C18_BatchesSequential ==
    \A p \in Procs :
        LET F == h[p]
        IN /\ F.nElev - F.nResp \in {0, 1}
           /\ F.nElev - F.nResp = 1 <=> F.pc = "elevFetch"
           /\ F.nDelay - F.nFired \in {0, 1}
           /\ F.nDelay - F.nFired = 1 <=> F.pc = "delay"
           /\ F.pc = "elevFetch" =>
                 /\ F.nResp = F.nElev - 1
                 /\ F.nDelay = F.nElev - 1
                 /\ F.nFired = F.nElev - 1
           /\ F.pc = "delay" => F.nResp = F.nElev

\* The second call of a request is outstanding: the first has been answered
\* and the delay after it has elapsed.
C18_Witness ==
    \E p \in Procs :
        /\ h[p].pc = "elevFetch" /\ h[p].nElev = 2
        /\ h[p].nResp = 1 /\ h[p].nFired = 1

\* C19: a batch response with fewer or more values than coordinates asked
\* (the values received no longer number those of the coordinates answered)
\* aborts the fetch: the request ends with a 500 response and puts nothing in
\* the cache.
C19_PartialBatchAborts ==
    \A p \in Procs :
        LET F == h[p]
        IN (/\ F.gridMade /\ F.elevRes = "results"
            /\ Len(F.elevations) # Min(F.nResp * BATCH_SIZE, NumLocations(F)))
           => /\ Done(p)
              /\ F.resp.status = 500
              /\ F.nPut = 0

\* C20: in a computed response, and in the entry it stored, elevations is the
\* fetched sequence unfiltered: an absent or null value stays at its position
\* (written null), every other value is unchanged; minElev and maxElev are
\* taken over the other values only.
C20_InvalidEntriesKept ==
    \A p \in Procs :
        Fresh(p) =>
            LET F == h[p]
                b == Body(p)
                valid == { F.elevations[k] :
                             k \in { j \in DOMAIN F.elevations :
                                       IsValid(F.elevations[j]) } }
            IN /\ Len(b.elevations) = Len(F.elevations)
               /\ \A k \in DOMAIN F.elevations :
                     b.elevations[k] = IF IsValid(F.elevations[k])
                                       THEN F.elevations[k] ELSE Null
               /\ b.minElev \in valid /\ b.maxElev \in valid
               /\ \A x \in valid : b.minElev <= x /\ x <= b.maxElev
               /\ F.nPut = 1 => store[F.cacheKey].elevations = b.elevations

\* A computed and stored response whose first value was absent: null at the
\* first of its four positions.
C20_Witness ==
    \E p \in Procs :
        /\ Fresh(p) /\ h[p].nPut = 1
        /\ h[p].elevations[1] = Undefined
        /\ Len(Body(p).elevations) = 4
        /\ Body(p).elevations[1] = Null
        /\ Body(p).elevations[2] # Null

\* C21: when every batch of a request has succeeded and no returned sample is
\* valid, the request ends with a 500 response and puts nothing in the cache;
\* no 200 response and no cache entry is without a valid sample.
C21_NoValidSampleIs500 ==
    /\ \A p \in Procs :
          LET F == h[p]
          IN /\ (/\ F.gridMade /\ F.elevRes = "results"
                 /\ F.nResp = NumBatches(NumLocations(F))
                 /\ Len(ValidElevations(F.elevations)) = 0)
                => /\ Done(p) /\ F.ret = "catch"
                   /\ F.resp.status = 500
                   /\ "error" \in DOMAIN Body(p)
                   /\ F.nPut = 0
             /\ Success(p) => ValidEntries(Body(p)) # {}
    /\ \A k \in DOMAIN store : ValidEntries(store[k]) # {}

\* The only batch of a request answered with as many values as coordinates,
\* all null.
C21_Witness ==
    \E p \in Procs :
        /\ h[p].elevRes = "results" /\ h[p].nResp = 1
        /\ Len(h[p].elevations) = 4
        /\ Len(ValidElevations(h[p].elevations)) = 0
        /\ h[p].resp.status = 500

\* C22: when the geocoding call fails (a status that is not ok, or a thrown
\* network error) the request ends with 500 and a body with an error field,
\* without cache lookup, cache put or elevation call; and every request that
\* has ended has one of the statuses 200, 400, 404, 500.
C22_GeocodingFailureIs500 ==
    \A p \in Procs :
        /\ (HasQ(p) /\ h[p].geoRes \in {"throws", "notOk"}) =>
              /\ Done(p)
              /\ h[p].resp.status = 500
              /\ "error" \in DOMAIN Body(p)
              /\ h[p].nGet = 0 /\ h[p].nPut = 0 /\ h[p].nElev = 0
        /\ Done(p) => h[p].resp.status \in {200, 400, 404, 500}
        /\ ~Done(p) => h[p].resp = NoResponse

\* The geocoding service answered a request with a status that is not ok.
C22_Witness ==
    \E p \in Procs :
        HasQ(p) /\ h[p].geoRes = "notOk" /\ h[p].nGeo = 1 /\ h[p].ret = "catch"

\* C23: a request with a non-empty q and a complete lat / lon pair takes its
\* centre from the first geocoding candidate (here at LatA, or with a lat that
\* is no number) and ignores the pair (at LatB); the pair is the centre only
\* when q is absent or empty, and then no geocoding call is made.
C23_QueryTakesPrecedence ==
    \A p \in Procs :
        LET F == h[p]
            pair == Truthy(F.lat) /\ Truthy(F.lon)
        IN /\ (HasQ(p) /\ pair) =>
                 /\ F.nGeo = 1
                 /\ F.name.kind # "coords"
                 /\ F.geoRes = "found" =>
                       /\ F.centerLat \in {LatA, NaN}
                       /\ F.centerLat # ParseFloat(F.lat)
                       /\ F.centerLon = LonA
                 /\ F.geoRes # "found" => IsNaN(F.centerLat) /\ F.nGet = 0
           /\ (~HasQ(p) /\ pair) =>
                 /\ F.nGeo = 0
                 /\ F.centerLat = ParseFloat(F.lat)
                 /\ F.centerLon = ParseFloat(F.lon)
                 /\ F.name = CoordsName(ParseFloat(F.lat), ParseFloat(F.lon))

\* A request with q and a pair at LatB answered 200 with the candidate's
\* centre, at LatA.
C23_Witness ==
    \E p \in Procs :
        /\ Success(p) /\ HasQ(p) /\ h[p].lat = Num(LatB) /\ h[p].lon = Num(LonA)
        /\ Body(p).center = <<LatA, LonA>>

\* A coordinate rounded to four decimals, in steps of 10^-4 degree.
Round4(x) ==
    IF x < 0 THEN 0 - RoundDiv(0 - x, Micro \div 10000)
    ELSE RoundDiv(x, Micro \div 10000)

\* C24: two requests get the same cache key exactly when their centres round
\* to the same four-decimal latitude and longitude and their size and grid are
\* equal.
C24_KeyOfRoundedCentre ==
    \A p, o \in Procs :
        (h[p].cacheKey # << >> /\ h[o].cacheKey # << >>) =>
            (h[p].cacheKey = h[o].cacheKey
               <=> /\ Round4(h[p].centerLat) = Round4(h[o].centerLat)
                   /\ Round4(h[p].centerLon) = Round4(h[o].centerLon)
                   /\ h[p].size = h[o].size
                   /\ h[p].grid = h[o].grid)


\* C25: for the same request, the same cache contents and the same responses
\* of the collaborators, the instrumented handler and the uninstrumented
\* revision are at the same point after every step, have issued the same
\* geocoding, cache and elevation calls (the pacing delays counted, their
\* length left aside), and return the same status and, on success, the same
\* center, elevations, minElev, maxElev and grid.
Calls(F) ==
    [geo |-> F.nGeo, get |-> F.nGet, put |-> F.nPut, elev |-> F.nElev,
     delay |-> F.nDelay, key |-> F.cacheKey, sent |-> F.sent]
Payload(b) ==
    [center |-> b.center, elevations |-> b.elevations, minElev |-> b.minElev,
     maxElev |-> b.maxElev, grid |-> b.grid]
C25_TelemetryHasNoEffect ==
    /\ h[Main].pc = h[Plain].pc
    /\ Calls(h[Main]) = Calls(h[Plain])
    /\ Done(Main) /\ Done(Plain) =>
          /\ h[Main].resp.status = h[Plain].resp.status
          /\ Success(Main) => Payload(Body(Main)) = Payload(Body(Plain))

\* C26: given that every collaborator call returns or fails and every pacing
\* timer fires, every request received eventually ends with a response, and
\* with one only: the response of a finished invocation stays as it is until
\* the next request arrives. Each further elevation call starts one batch
\* after the previous one, and a request over grid * grid points never issues
\* more than ceil(grid * grid / 100) elevation calls.
Running(p) == h[p].pc \notin {"idle", "done"}
C26_EveryRequestEnds ==
    /\ Running(Main) ~> Done(Main)
    /\ [](h[Main].nElev <= NumBatches(h[Main].grid * h[Main].grid))
    /\ [][ /\ (Done(Main) /\ nreq' = nreq) => h'[Main] = h[Main]
           /\ (Running(Main) /\ h'[Main].nElev = h[Main].nElev + 1
                 /\ h[Main].nElev >= 1)
                => h'[Main].i = h[Main].i + BATCH_SIZE ]_vars
C26_Witness ==
    /\ Done(Main) /\ h[Main].resp.status = 200 /\ h[Main].ret = "fresh"
    /\ h[Main].grid = 11 /\ h[Main].nElev = 2 /\ h[Main].nFired = 1
====
